---- MODULE Spec2Model ----
(***************************************************************************)
(* chroma-embedded: the dependency checker (check_deps.py) and the         *)
(* embedding-function factory (embedding_functions.py).                    *)
(*                                                                         *)
(*   Spec       one run of check_deps.main(): the shell-interpreter scan,  *)
(*              the package probes, the summary and the exit code.         *)
(*   SpecGate   the shell-version gate as a function of a version line.    *)
(*   SpecEmbed  a sequence of get_embedding_function calls.                *)
(*                                                                         *)
(* What the environment answers (an import succeeding or raising, what a   *)
(* subprocess prints, a model load succeeding or raising) is an input of   *)
(* the step that asks for it.  Text is a sequence of tokens: one token per *)
(* decimal digit, the literal "version " and "." as tokens of their own.   *)
(* The marks of the report are written "[ok]" and "[fail]".                *)
(***************************************************************************)
EXTENDS Integers, Sequences, FiniteSets, TLC

VARIABLES
    pc,                  \* where main() is
    cand,                \* index into bash_paths of the candidate tried next
    bash_env,            \* what subprocess.run gives for each candidate, if it is tried
    bash_ok, bash_path, bash_version,
    astchunk_ok, mistune_ok, core_ok, core_i,
    pytesseract_ok, tesseract_binary_ok, easyocr_ok,
    probed,              \* <<package, outcome of import_module>> per check_package call
    report,              \* the lines printed to standard output
    exit_code,           \* <<what main() returned>>; <<>> before that
    uncaught,            \* the exception that left main(), "none" otherwise
    version_line, gate_pc, gate_match, gate_ok,   \* the version gate on one line
    calls,               \* the model_name of each get_embedding_function call
    loads,               \* the SentenceTransformer(...) constructions, in order
    results,             \* how each call ended: an object returned or an error raised
    next_id              \* the identity of the next object allocated

bashVars == <<cand, bash_env, bash_ok, bash_path, bash_version>>
flagVars == <<astchunk_ok, mistune_ok, core_ok, core_i,
              pytesseract_ok, tesseract_binary_ok, easyocr_ok>>
mainVars == <<pc, bashVars, flagVars, probed, report, exit_code, uncaught>>
gateVars == <<version_line, gate_pc, gate_match, gate_ok>>
embedVars == <<calls, loads, results, next_id>>
vars == <<mainVars, gateVars, embedVars>>

----------------------------------------------------------------------------
(* Bounds of the model *)

\* the version lines of SpecGate carry majors 0..MaxMajor and minors 0..MaxMinor
MaxMajor == 6
MaxMinor == 11
\* the number of get_embedding_function calls in a behaviour of SpecEmbed
MaxCalls == 3

(* Program constants *)

\* major == 4 and minor >= 3
MinMajor == 4
MinMinor == 3

----------------------------------------------------------------------------
(* Text *)

DigitTokens == <<"0", "1", "2", "3", "4", "5", "6", "7", "8", "9">>

IsDigit(t) == \E d \in 1..10 : DigitTokens[d] = t

DigitValue(t) == (CHOOSE d \in 1..10 : DigitTokens[d] = t) - 1

\* int(s) of a string of decimal digits
RECURSIVE int(_)
int(ds) ==
    IF ds = <<>> THEN 0
    ELSE 10 * int(SubSeq(ds, 1, Len(ds) - 1)) + DigitValue(ds[Len(ds)])

\* str(n) of a non-negative integer, as f"{n}" writes it
RECURSIVE str(_)
str(n) ==
    IF n < 10 THEN <<DigitTokens[n + 1]>>
    ELSE str(n \div 10) \o <<DigitTokens[(n % 10) + 1]>>

\* f"{major}.{minor}"
FormatVersion(major, minor) == str(major) \o <<".">> \o str(minor)

\* the length of the longest run of digits of line that starts at i: what \d+
\* takes there (greedy; no shorter run can be followed by a non-digit)
RECURSIVE DigitRun(_, _)
DigitRun(line, i) ==
    IF i <= Len(line) /\ IsDigit(line[i]) THEN 1 + DigitRun(line, i + 1) ELSE 0

\* r'version (\d+)\.(\d+)' matched at position i of line
MatchAt(line, i) ==
    LET a == DigitRun(line, i + 1)
        dot == i + 1 + a
        b == DigitRun(line, dot + 1)
    IN  /\ i <= Len(line) /\ line[i] = "version "
        /\ a >= 1
        /\ dot <= Len(line) /\ line[dot] = "."
        /\ b >= 1

NoMatch == [found |-> FALSE, group1 |-> <<>>, group2 |-> <<>>]

\* re.search(r'version (\d+)\.(\d+)', version_line): the leftmost match
re_search(line) ==
    IF \E i \in 1..Len(line) : MatchAt(line, i)
    THEN LET i == CHOOSE k \in 1..Len(line) :
                      MatchAt(line, k) /\ \A j \in 1..(k - 1) : ~MatchAt(line, j)
             a == DigitRun(line, i + 1)
             b == DigitRun(line, i + 2 + a)
         IN  [found |-> TRUE,
              group1 |-> SubSeq(line, i + 1, i + a),
              group2 |-> SubSeq(line, i + 2 + a, i + 1 + a + b)]
    ELSE NoMatch

\* result.stdout.split('\n')[0]; stdout is the sequence of its lines
FirstLine(stdout) == IF stdout = <<>> THEN <<>> ELSE stdout[1]

\* faulty variant: both components compared with the threshold, so 5.1 is too old
Adequate_componentwise(major, minor) == major >= MinMajor /\ minor >= MinMinor

\* the 4.3 gate
Adequate(major, minor) == major > MinMajor \/ (major = MinMajor /\ minor >= MinMinor)

----------------------------------------------------------------------------
(* check_deps.py: what the environment can answer *)

\* import_module(package_name): it returns, raises ImportError, or the package's
\* own top-level code raises something else while it is being imported
ImportOutcomes == {"ok", "ImportError", "RuntimeError"}

\* pytesseract.get_tesseract_version(): a version, or TesseractNotFoundError
TesseractOutcomes == {"ok", "TesseractNotFoundError"}

\* the first lines of `bash --version`
BashBanner(major, minor, patch) ==
    << <<"GNU bash, ", "version ">> \o str(major) \o <<".">> \o str(minor)
           \o <<".">> \o str(patch) \o <<"(1)-release">>,
       <<"Copyright (C) Free Software Foundation, Inc.">> >>

\* the interpreters the environment may hold, each with the text f"{major}.{minor}"
\* of its version
SampleVersions ==
    { [major |-> 3, minor |-> 2, patch |-> 57, text |-> <<"3", ".", "2">>],
      [major |-> 4, minor |-> 2, patch |-> 46, text |-> <<"4", ".", "2">>],
      [major |-> 4, minor |-> 4, patch |-> 20, text |-> <<"4", ".", "4">>],
      [major |-> 5, minor |-> 1, patch |-> 8, text |-> <<"5", ".", "1">>] }

BannerOf(v) == BashBanner(v.major, v.minor, v.patch)

\* outputs without a version in their first line
UnparsableStdouts ==
    { <<>>,
      << <<"bash: ", "unrecognized option">> >>,
      << <<"warning: setlocale">>, BashBanner(5, 1, 8)[1] >> }

SampleStdouts == UnparsableStdouts \cup { BannerOf(v) : v \in SampleVersions }

Completed(returncode, stdout) ==
    [exc |-> "none", returncode |-> returncode, stdout |-> stdout]

Raised(exc) == [exc |-> exc, returncode |-> 0, stdout |-> <<>>]

\* subprocess.run([bash_path, "--version"], capture_output, text, timeout=5):
\* it raises (the timeout, no such file, a file that cannot be executed), or
\* completes with a return code and the captured output
RunOutcomes ==
    { Raised(e) : e \in {"TimeoutExpired", "FileNotFoundError", "PermissionError"} }
    \cup { Completed(127, <<>>) }
    \cup { Completed(0, s) : s \in SampleStdouts }

\* the outcomes a run of main() is checked with: a candidate that is absent, one
\* that hangs, one that cannot be executed, an old and a recent interpreter
MainRunOutcomes ==
    { Raised(e) : e \in {"TimeoutExpired", "FileNotFoundError", "PermissionError"} }
    \cup { Completed(0, BashBanner(4, 2, 46)), Completed(0, BashBanner(5, 1, 8)) }

----------------------------------------------------------------------------
(* check_deps.py: check_package, check_tesseract *)

\* faulty variant: the except branch returns True as well
check_package_always_true(package_name, description, imported) ==
    IF imported \in {"ok", "ImportError"}
    THEN [raised |-> "none", ret |-> TRUE,
          out |-> << <<"[ok]", package_name, description>> >>]
    ELSE [raised |-> imported, ret |-> FALSE, out |-> <<>>]

check_package(package_name, description, imported) ==
    IF imported = "ok"
    THEN [raised |-> "none", ret |-> TRUE,
          out |-> << <<"[ok]", package_name, description>> >>]
    ELSE IF imported = "ImportError"
    THEN [raised |-> "none", ret |-> FALSE,
          out |-> << <<"[fail]", package_name, description>> >>]
    ELSE [raised |-> imported, ret |-> FALSE, out |-> <<>>]

check_tesseract(answer) ==
    IF answer = "ok"
    THEN [ret |-> TRUE, out |-> << <<"[ok]", "tesseract binary", "version">> >>]
    ELSE [ret |-> FALSE, out |-> << <<"[fail]", "tesseract binary", answer>> >>]

----------------------------------------------------------------------------
(* check_deps.py: check_bash_version, one candidate of the loop per step *)

bash_paths == <<"/opt/homebrew/bin/bash", "/usr/local/bin/bash", "/bin/bash">>

\* faulty variant: the inner handler catches FileNotFoundError only
InnerCaught_not_found_only(exc) == exc = "FileNotFoundError"

\* except (subprocess.TimeoutExpired, FileNotFoundError): continue
InnerCaught(exc) == exc \in {"TimeoutExpired", "FileNotFoundError"}

\* what one iteration of the loop does with what subprocess.run gave:
\* "return" with the triple and the printed line, "continue" with the next
\* candidate, or "raise" into the outer handler
Iteration(path, run) ==
    IF run.exc # "none"
    THEN IF InnerCaught(run.exc)
         THEN [do |-> "continue", ok |-> FALSE, version |-> <<>>, out |-> <<>>]
         ELSE [do |-> "raise", ok |-> FALSE, version |-> <<>>, out |-> <<>>]
    ELSE IF run.returncode # 0
    THEN [do |-> "continue", ok |-> FALSE, version |-> <<>>, out |-> <<>>]
    ELSE LET match == re_search(FirstLine(run.stdout))
             major == int(match.group1)
             minor == int(match.group2)
             v == FormatVersion(major, minor)
         IN  IF ~match.found
             THEN [do |-> "continue", ok |-> FALSE, version |-> <<>>, out |-> <<>>]
             ELSE IF Adequate(major, minor)
             THEN [do |-> "return", ok |-> TRUE, version |-> v,
                   out |-> << <<"[ok]", "Bash">> \o v
                              \o <<"at", path, "Supports parallel processing">> >>]
             ELSE IF path = "/bin/bash"
             THEN [do |-> "return", ok |-> FALSE, version |-> v,
                   out |-> << <<"[fail]", "Bash">> \o v
                              \o <<"at", path, "Too old for parallel processing (need 4.3+)">> >>]
             ELSE [do |-> "continue", ok |-> FALSE, version |-> <<>>, out |-> <<>>]

BashHeader == << <<"Checking ChromaDB Enhanced Dependencies">>, <<"System Dependencies:">> >>

CheckBashCandidate ==
    /\ pc = "check_bash"
    /\ LET path == bash_paths[cand]
           run == bash_env[cand]
           it == Iteration(path, run)
           head == IF cand = 1 THEN BashHeader ELSE <<>>
       IN  /\ bash_env' = bash_env
           /\ CASE it.do = "return" ->
                       \* return True/False, bash_path, f"{major}.{minor}"
                       /\ bash_ok' = it.ok
                       /\ bash_path' = path
                       /\ bash_version' = it.version
                       /\ report' = report \o head \o it.out
                       /\ pc' = "astchunk"
                       /\ cand' = cand
                  [] it.do = "raise" ->
                       \* except Exception as e: return False, "/bin/bash", "error"
                       /\ bash_ok' = FALSE
                       /\ bash_path' = "/bin/bash"
                       /\ bash_version' = <<"error">>
                       /\ report' = report \o head
                              \o << <<"[fail]", "Error checking Bash version", run.exc>> >>
                       /\ pc' = "astchunk"
                       /\ cand' = cand
                  [] it.do = "continue" /\ cand < Len(bash_paths) ->
                       /\ cand' = cand + 1
                       /\ report' = report \o head
                       /\ UNCHANGED <<bash_ok, bash_path, bash_version, pc>>
                  [] it.do = "continue" /\ cand = Len(bash_paths) ->
                       \* the loop ends: return False, "/bin/bash", "unknown"
                       /\ bash_ok' = FALSE
                       /\ bash_path' = "/bin/bash"
                       /\ bash_version' = <<"unknown">>
                       /\ report' = report \o head
                       /\ pc' = "astchunk"
                       /\ cand' = cand
    /\ UNCHANGED <<flagVars, probed, exit_code, uncaught, gateVars, embedVars>>

----------------------------------------------------------------------------
(* check_deps.py: main, one probe per step *)

core_deps ==
    << <<"chromadb", "ChromaDB vector database">>,
       <<"fitz", "PyMuPDF for PDF processing">>,
       <<"PIL", "Pillow for image processing">>,
       <<"packaging", "Version checking utilities">> >>

InstallHint == <<"  -> Install with: pip install .">>

\* an exception no handler of main() catches: the run ends in a traceback
Escapes(exc, head) ==
    /\ pc' = "crashed"
    /\ uncaught' = exc
    /\ report' = report \o head
    /\ UNCHANGED <<flagVars, exit_code>>

ProbeAstchunk ==
    /\ pc = "astchunk"
    /\ \E imported \in ImportOutcomes :
         LET r == check_package("astchunk", "AST-aware source code chunking", imported)
             head == << <<"Source Code Processing:">> >>
         IN  /\ probed' = Append(probed, <<"astchunk", imported>>)
             /\ IF r.raised # "none"
                THEN Escapes(r.raised, head)
                ELSE /\ astchunk_ok' = r.ret
                     /\ report' = report \o head \o r.out
                            \o (IF r.ret THEN <<>> ELSE <<InstallHint>>)
                     /\ pc' = IF r.ret THEN "tree_sitter" ELSE "mistune"
                     /\ UNCHANGED <<mistune_ok, core_ok, core_i, pytesseract_ok,
                                    tesseract_binary_ok, easyocr_ok, exit_code, uncaught>>
    /\ UNCHANGED <<bashVars, gateVars, embedVars>>

ProbeTreeSitter ==
    /\ pc = "tree_sitter"
    /\ \E imported \in ImportOutcomes :
         LET r == check_package("tree_sitter", "Multi-language parsing support", imported)
         IN  /\ probed' = Append(probed, <<"tree_sitter", imported>>)
             /\ IF r.raised # "none"
                THEN Escapes(r.raised, <<>>)
                ELSE /\ report' = report \o r.out
                            \o << <<"  -> AST-aware chunking ready for source code!">> >>
                     /\ pc' = "mistune"
                     /\ UNCHANGED <<flagVars, exit_code, uncaught>>
    /\ UNCHANGED <<bashVars, gateVars, embedVars>>

ProbeMistune ==
    /\ pc = "mistune"
    /\ \E imported \in ImportOutcomes :
         LET r == check_package("mistune", "Markdown parsing for heading-aware chunking",
                                imported)
             head == << <<"Markdown Processing:">> >>
         IN  /\ probed' = Append(probed, <<"mistune", imported>>)
             /\ IF r.raised # "none"
                THEN Escapes(r.raised, head)
                ELSE /\ mistune_ok' = r.ret
                     /\ report' = report \o head \o r.out
                            \o (IF r.ret
                                THEN << <<"  -> Heading-aware chunking ready for markdown!">> >>
                                ELSE <<InstallHint>>)
                     /\ pc' = "core"
                     /\ UNCHANGED <<astchunk_ok, core_ok, core_i, pytesseract_ok,
                                    tesseract_binary_ok, easyocr_ok, exit_code, uncaught>>
    /\ UNCHANGED <<bashVars, gateVars, embedVars>>

\* core_ok = all(check_package(pkg, desc) for pkg, desc in core_deps): all() pulls
\* one check_package call at a time out of the generator and stops at the first
\* False
ProbeCore ==
    /\ pc = "core"
    /\ \E imported \in ImportOutcomes :
         LET pkg == core_deps[core_i][1]
             r == check_package(pkg, core_deps[core_i][2], imported)
             head == IF core_i = 1 THEN << <<"Core Dependencies:">> >> ELSE <<>>
         IN  /\ probed' = Append(probed, <<pkg, imported>>)
             /\ IF r.raised # "none"
                THEN Escapes(r.raised, head)
                ELSE /\ report' = report \o head \o r.out
                     /\ IF ~r.ret
                        THEN core_ok' = FALSE /\ pc' = "pytesseract" /\ core_i' = core_i
                        ELSE IF core_i < Len(core_deps)
                        THEN core_i' = core_i + 1 /\ UNCHANGED <<core_ok, pc>>
                        ELSE core_ok' = TRUE /\ pc' = "pytesseract" /\ core_i' = core_i
                     /\ UNCHANGED <<astchunk_ok, mistune_ok, pytesseract_ok,
                                    tesseract_binary_ok, easyocr_ok, exit_code, uncaught>>
    /\ UNCHANGED <<bashVars, gateVars, embedVars>>

ProbePytesseract ==
    /\ pc = "pytesseract"
    /\ \E imported \in ImportOutcomes :
         LET r == check_package("pytesseract", "PyTesseract Python wrapper", imported)
             head == << <<"OCR Dependencies:">> >>
         IN  /\ probed' = Append(probed, <<"pytesseract", imported>>)
             /\ IF r.raised # "none"
                THEN Escapes(r.raised, head)
                ELSE /\ pytesseract_ok' = r.ret
                     /\ tesseract_binary_ok' = FALSE
                     /\ report' = report \o head \o r.out
                            \o (IF r.ret THEN <<>>
                                ELSE << <<"  -> Install with: pip install . (already included)">> >>)
                     /\ pc' = IF r.ret THEN "tesseract" ELSE "easyocr"
                     /\ UNCHANGED <<astchunk_ok, mistune_ok, core_ok, core_i,
                                    easyocr_ok, exit_code, uncaught>>
    /\ UNCHANGED <<bashVars, gateVars, embedVars>>

ProbeTesseract ==
    /\ pc = "tesseract"
    /\ \E answer \in TesseractOutcomes :
         LET r == check_tesseract(answer)
         IN  /\ tesseract_binary_ok' = r.ret
             /\ report' = report \o r.out
                    \o (IF r.ret THEN << <<"  -> Tesseract OCR is ready to use!">> >>
                        ELSE << <<"  -> Install tesseract binary:">> >>)
    /\ pc' = "easyocr"
    /\ UNCHANGED <<bashVars, astchunk_ok, mistune_ok, core_ok, core_i, pytesseract_ok,
                   easyocr_ok, probed, exit_code, uncaught, gateVars, embedVars>>

ProbeEasyocr ==
    /\ pc = "easyocr"
    /\ \E imported \in ImportOutcomes :
         LET r == check_package("easyocr", "EasyOCR engine (pure Python)", imported)
             head == << <<"Optional EasyOCR:">> >>
         IN  /\ probed' = Append(probed, <<"easyocr", imported>>)
             /\ IF r.raised # "none"
                THEN Escapes(r.raised, head)
                ELSE /\ easyocr_ok' = r.ret
                     /\ report' = report \o head \o r.out
                            \o (IF r.ret THEN <<>>
                                ELSE << <<"  -> Install with: pip install .[easyocr]">> >>)
                     /\ pc' = IF r.ret THEN "numpy" ELSE "summary"
                     /\ UNCHANGED <<astchunk_ok, mistune_ok, core_ok, core_i, pytesseract_ok,
                                    tesseract_binary_ok, exit_code, uncaught>>
    /\ UNCHANGED <<bashVars, gateVars, embedVars>>

ProbeNumpy ==
    /\ pc = "numpy"
    /\ \E imported \in ImportOutcomes :
         LET r == check_package("numpy", "NumPy (required by EasyOCR)", imported)
         IN  /\ probed' = Append(probed, <<"numpy", imported>>)
             /\ IF r.raised # "none"
                THEN Escapes(r.raised, <<>>)
                ELSE /\ report' = report \o r.out
                            \o << <<"  -> EasyOCR is ready to use!">> >>
                     /\ pc' = "summary"
                     /\ UNCHANGED <<flagVars, exit_code, uncaught>>
    /\ UNCHANGED <<bashVars, gateVars, embedVars>>

\* the lines of the summary after the core check
SummaryLines ==
    (IF ~bash_ok
     THEN << <<"(!)", "Bash version too old for parallel processing">>,
             <<"   Current: Bash">> \o bash_version,
             <<"   Required: Bash 4.3+ for efficient parallel uploads">> >>
     ELSE << <<"(ok)", "Bash">> \o bash_version \o <<"Parallel processing ready">> >>)
    \o (IF astchunk_ok
        THEN << <<"(ok)", "ASTChunk ready - Source code processing available">> >>
        ELSE << <<"(!)", "ASTChunk missing - Source code will use basic chunking">> >>)
    \o (IF mistune_ok
        THEN << <<"(ok)", "Mistune ready - Markdown heading-aware chunking available">> >>
        ELSE << <<"(!)", "Mistune missing - Markdown will use basic chunking">> >>)
    \o (IF pytesseract_ok /\ tesseract_binary_ok
        THEN << <<"(ok)", "Tesseract ready - OCR available (default engine)">> >>
        ELSE IF easyocr_ok
        THEN << <<"(ok)", "EasyOCR available - OCR will work">> >>
        ELSE << <<"(!)", "No OCR engine available">> >>)
    \o << <<"Ready to process multiple content types!">> >>

Summary ==
    /\ pc = "summary"
    /\ IF ~core_ok
       THEN /\ report' = report \o << <<"SUMMARY:">>,
                   <<"(x)", "Core dependencies missing - run: pip install .">> >>
            /\ exit_code' = <<1>>
       ELSE /\ report' = report \o << <<"SUMMARY:">> >> \o SummaryLines
            /\ exit_code' = <<0>>
    /\ pc' = "done"
    /\ UNCHANGED <<bashVars, flagVars, probed, uncaught, gateVars, embedVars>>

----------------------------------------------------------------------------
(* check_deps.py: the version gate of check_bash_version on one version line *)

\* lines "... version <major>.<minor>[.<patch>]..." and lines without a version
GateTails == { <<>>, <<".", "4", "6">>, <<".", "8", "(1)-release">> }

GateLine(major, minor, tail) ==
    <<"GNU bash, ", "version ">> \o str(major) \o <<".">> \o str(minor) \o tail

GateLines ==
    { GateLine(major, minor, tail) :
          major \in 0..MaxMajor, minor \in 0..MaxMinor, tail \in GateTails }
    \cup { <<>>, <<"GNU bash">>, <<"version ", "x", ".", "1">>, <<"version ", "5">>,
           <<"version ", "unknown, ", "version ", "5", ".", "0">> }

\* match = re.search(...)
GateSearch ==
    /\ gate_pc = "search"
    /\ gate_match' = re_search(version_line)
    /\ gate_pc' = IF gate_match'.found THEN "compare" ELSE "nomatch"
    /\ UNCHANGED <<version_line, gate_ok, mainVars, embedVars>>

\* major = int(match.group(1)); minor = int(match.group(2)); the comparison
GateCompare ==
    /\ gate_pc = "compare"
    /\ gate_ok' = Adequate(int(gate_match.group1), int(gate_match.group2))
    /\ gate_pc' = "compared"
    /\ UNCHANGED <<version_line, gate_match, mainVars, embedVars>>

----------------------------------------------------------------------------
(* embedding_functions.py *)

\* model_map.keys(), in the order of the dict literal
model_map_keys == <<"stella", "modernbert", "bge-large">>

model_map(model_name) ==
    CASE model_name = "stella" -> "StellaEmbeddingFunction"
      [] model_name = "modernbert" -> "ModernBERTEmbeddingFunction"
      [] model_name = "bge-large" -> "BGEEmbeddingFunction"

in_model_map(model_name) == \E k \in 1..Len(model_map_keys) : model_map_keys[k] = model_name

\* the SentenceTransformer(...) call of each class's __init__
init_args(cls) ==
    CASE cls = "StellaEmbeddingFunction" ->
             [hub |-> "dunzhang/stella_en_400M_v5", trust_remote_code |-> TRUE]
      [] cls = "ModernBERTEmbeddingFunction" ->
             [hub |-> "answerdotai/ModernBERT-large", trust_remote_code |-> TRUE]
      [] cls = "BGEEmbeddingFunction" ->
             [hub |-> "BAAI/bge-large-en-v1.5", trust_remote_code |-> FALSE]

NoError == [type |-> "none", message |-> <<>>]

\* what SentenceTransformer raises when the model cannot be fetched or read
LoadError(outcome) == [type |-> outcome, message |-> <<"raised by SentenceTransformer">>]

\* faulty variant: the message leaves out the name it was given
UnknownModelError_without_name(model_name) ==
    [type |-> "ValueError",
     message |-> <<"Unknown embedding model. Available: ">> \o model_map_keys]

\* ValueError(f"Unknown embedding model: {model_name}. Available: {list(model_map.keys())}")
UnknownModelError(model_name) ==
    [type |-> "ValueError",
     message |-> <<"Unknown embedding model: ", model_name, ". Available: ">>
                     \o model_map_keys]

\* faulty variant: one instance per class is kept and handed out again
construct_cached(cls, outcome, id) ==
    IF outcome = "ok"
    THEN [kind |-> "returned", object |-> [id |-> 1, class |-> cls, model |-> "loaded"],
          error |-> NoError]
    ELSE [kind |-> "raised", object |-> [id |-> 0, class |-> "none", model |-> "none"],
          error |-> LoadError(outcome)]

\* faulty variant: __init__ swallows the load error and the object comes back without a model
construct_swallow(cls, outcome, id) ==
    [kind |-> "returned",
     object |-> [id |-> id, class |-> cls,
                 model |-> IF outcome = "ok" THEN "loaded" ELSE "none"],
     error |-> NoError]

\* cls(): __init__ runs SentenceTransformer(...); the object is returned when it
\* comes back, and what it raises leaves __init__ and the factory as it is
construct(cls, outcome, id) ==
    IF outcome = "ok"
    THEN [kind |-> "returned", object |-> [id |-> id, class |-> cls, model |-> "loaded"],
          error |-> NoError]
    ELSE [kind |-> "raised", object |-> [id |-> 0, class |-> "none", model |-> "none"],
          error |-> LoadError(outcome)]

ModelNames == {"stella", "modernbert", "bge-large", "gpt-bogus", "Stella", ""}

\* SentenceTransformer(...): the model is loaded, or the hub or the files fail
LoadOutcomes == {"ok", "OSError", "ConnectionError"}

get_embedding_function ==
    /\ Len(calls) < MaxCalls
    /\ \E model_name \in ModelNames, outcome \in LoadOutcomes :
         /\ calls' = Append(calls, model_name)
         /\ IF ~in_model_map(model_name)
            THEN /\ results' = Append(results,
                        [kind |-> "raised",
                         object |-> [id |-> 0, class |-> "none", model |-> "none"],
                         error |-> UnknownModelError(model_name)])
                 /\ UNCHANGED <<loads, next_id>>
            ELSE LET cls == model_map(model_name)
                 IN  /\ loads' = Append(loads, [call |-> Len(calls) + 1,
                                                 args |-> init_args(cls),
                                                 outcome |-> outcome])
                     /\ results' = Append(results, construct(cls, outcome, next_id))
                     /\ next_id' = next_id + 1
    /\ UNCHANGED <<mainVars, gateVars>>

----------------------------------------------------------------------------
(* The specifications *)

IdleGate == /\ version_line = <<>> /\ gate_pc = "idle"
            /\ gate_match = NoMatch /\ gate_ok = FALSE

IdleEmbed == /\ calls = <<>> /\ loads = <<>> /\ results = <<>> /\ next_id = 1

MainLocals ==
    /\ cand = 1
    /\ bash_ok = FALSE /\ bash_path = "unset" /\ bash_version = <<>>
    /\ astchunk_ok = FALSE /\ mistune_ok = FALSE /\ core_ok = FALSE /\ core_i = 1
    /\ pytesseract_ok = FALSE /\ tesseract_binary_ok = FALSE /\ easyocr_ok = FALSE
    /\ probed = <<>> /\ report = <<>> /\ exit_code = <<>> /\ uncaught = "none"

IdleMain == /\ pc = "idle" /\ bash_env = <<>> /\ MainLocals

\* one run of main()
Init ==
    /\ pc = "check_bash"
    /\ bash_env \in [1..Len(bash_paths) -> MainRunOutcomes]
    /\ MainLocals
    /\ IdleGate /\ IdleEmbed

Next ==
    \/ CheckBashCandidate
    \/ ProbeAstchunk
    \/ ProbeTreeSitter
    \/ ProbeMistune
    \/ ProbeCore
    \/ ProbePytesseract
    \/ ProbeTesseract
    \/ ProbeEasyocr
    \/ ProbeNumpy
    \/ Summary

Spec == Init /\ [][Next]_vars

\* check_bash_version() alone, up to its return to main()
InitScan ==
    /\ pc = "check_bash"
    /\ bash_env \in [1..Len(bash_paths) -> RunOutcomes]
    /\ MainLocals
    /\ IdleGate /\ IdleEmbed

NextScan == CheckBashCandidate

SpecScan == InitScan /\ [][NextScan]_vars

\* the version gate on every version line
InitGate ==
    /\ version_line \in GateLines
    /\ gate_pc = "search" /\ gate_match = NoMatch /\ gate_ok = FALSE
    /\ IdleMain /\ IdleEmbed

NextGate == GateSearch \/ GateCompare

SpecGate == InitGate /\ [][NextGate]_vars

\* a caller of the factory
InitEmbed == IdleEmbed /\ IdleMain /\ IdleGate

NextEmbed == get_embedding_function

SpecEmbed == InitEmbed /\ [][NextEmbed]_vars

----------------------------------------------------------------------------
(* Properties of the dependency checker *)

Printed(line) == \E k \in 1..Len(report) : report[k] = line

\* check_package was called for pkg and import_module answered `imported`
Probed(pkg, imported) == \E k \in 1..Len(probed) : probed[k] = <<pkg, imported>>

CorePackages == {"chromadb", "fitz", "PIL", "packaging"}

AllPackages == CorePackages \cup
    {"astchunk", "tree_sitter", "mistune", "pytesseract", "easyocr", "numpy"}

\* C1: when every import either succeeds or raises ImportError, main() returns,
\* and it returns 0 if and only if chromadb, fitz, PIL and packaging were all
\* found, 1 otherwise, whatever the bash, astchunk, tree_sitter, mistune,
\* pytesseract, tesseract, easyocr and numpy checks gave.
C1_ExitCodeIffCoreFound ==
    /\ pc = "done" =>
          /\ exit_code \in {<<0>>, <<1>>}
          /\ exit_code = <<0>> <=> \A pkg \in CorePackages : Probed(pkg, "ok")
    /\ pc # "done" => exit_code = <<>>
    /\ pc = "crashed" => \E pkg \in AllPackages : Probed(pkg, "RuntimeError")

\* exit code 0 although the shell is inadequate and every optional check failed
C1_Witness ==
    /\ pc = "done" /\ exit_code = <<0>>
    /\ ~bash_ok /\ ~astchunk_ok /\ ~mistune_ok /\ ~pytesseract_ok /\ ~easyocr_ok

\* C2: however the import of a package fails, check_package reports the package
\* as unavailable and returns; no exception leaves it, so main() reaches its
\* summary.
C2_NoExceptionLeavesCheckPackage ==
    /\ uncaught = "none"
    /\ \A k \in 1..Len(probed) :
          probed[k][2] # "ok" => \E j \in 1..Len(report) :
              /\ Len(report[j]) >= 2
              /\ report[j][1] = "[fail]" /\ report[j][2] = probed[k][1]

\* the version the interpreter behind a run reports, as the environment has it
AnswersWith(run, v) == run = Completed(0, BannerOf(v))

AtLeast43(v) == v.major > 4 \/ (v.major = 4 /\ v.minor >= 3)

AnswersAdequate(run) == \E v \in SampleVersions : AnswersWith(run, v) /\ AtLeast43(v)

AnswersParsable(run) == \E v \in SampleVersions : AnswersWith(run, v)

\* timed out, not found, exited non-zero, unparsable version line, too old
ListedFailure(run) ==
    \/ run.exc \in {"TimeoutExpired", "FileNotFoundError"}
    \/ run.exc = "none" /\ run.returncode # 0
    \/ run.exc = "none" /\ run.returncode = 0 /\ run.stdout \in UnparsableStdouts
    \/ \E v \in SampleVersions : AnswersWith(run, v) /\ ~AtLeast43(v)

CandidateOrder == <<"/opt/homebrew/bin/bash", "/usr/local/bin/bash", "/bin/bash">>

Returned == pc = "astchunk"

\* C3: the candidates are tried in the order /opt/homebrew/bin/bash,
\* /usr/local/bin/bash, /bin/bash.  A candidate p that was queried and answered
\* with a version >= 4.3 is the one returned, as (True, p, "major.minor" of p),
\* and the scan stopped at it; and p is queried, hence returned, whenever it is
\* the first candidate with such an answer and every candidate before it timed
\* out, was not found, exited non-zero, gave an unparsable version line or was
\* too old.
C3_FirstAdequateCandidate ==
    Returned =>
        \A p \in 1..3 : \A v \in SampleVersions :
            ( /\ AnswersWith(bash_env[p], v) /\ AtLeast43(v)
              /\ \/ p <= cand
                 \/ \A j \in 1..(p - 1) :
                       ~AnswersAdequate(bash_env[j]) /\ ListedFailure(bash_env[j]) )
            => /\ bash_ok
               /\ bash_path = CandidateOrder[p]
               /\ bash_version = v.text
               /\ cand = p

\* /bin/bash is returned after one candidate timed out and one was too old
C3_Witness ==
    /\ Returned
    /\ bash_env[1] = Raised("TimeoutExpired")
    /\ bash_env[2] = Completed(0, BashBanner(4, 2, 46))
    /\ bash_env[3] = Completed(0, BashBanner(5, 1, 8))
    /\ bash_ok /\ bash_path = "/bin/bash" /\ bash_version = <<"5", ".", "1">>

\* C8: with every package present and /bin/bash at 5.1, whatever the other two
\* candidates do (absent, too old, timing out, failing to execute otherwise),
\* the run returns 0 and the report has "Bash 5.1 - Parallel processing ready".
C8_ReadyWithBinBash51 ==
    ( /\ pc = "done"
      /\ \A pkg \in AllPackages : Probed(pkg, "ok")
      /\ tesseract_binary_ok
      /\ bash_env[3] = Completed(0, BashBanner(5, 1, 8))
      /\ \A j \in 1..2 : ~AnswersAdequate(bash_env[j]) )
    => /\ exit_code = <<0>>
       /\ Printed(<<"(ok)", "Bash", "5", ".", "1", "Parallel processing ready">>)

ReportedItems ==
    {"Bash", "astchunk", "mistune", "chromadb", "fitz", "PIL", "packaging",
     "pytesseract", "easyocr"}

PassFailLine(line, item) ==
    /\ Len(line) >= 2
    /\ line[1] \in {"[ok]", "[fail]"}
    /\ \/ line[2] = item
       \/ item = "Bash" /\ line[2] = "Error checking Bash version"

\* C9: every run of main() that returns has printed a pass/fail line for the
\* shell interpreter and for each of astchunk, mistune, chromadb, fitz, PIL,
\* packaging, pytesseract and easyocr: no failed check keeps a later item from
\* being probed and reported.
C9_EveryItemReported ==
    pc = "done" =>
        \A item \in ReportedItems :
            \E k \in 1..Len(report) : PassFailLine(report[k], item)

\* C10: when at least one of the candidates queried answered with a parsable
\* version, check_bash_version returns a parsed major.minor version and the
\* path of a candidate that was queried and answered, never "unknown" or
\* "error".
C10_FallbackOnlyIfNoneAnswered ==
    (Returned /\ \E k \in 1..cand : AnswersParsable(bash_env[k]))
    => /\ bash_version \notin {<<"unknown">>, <<"error">>}
       /\ \E k \in 1..cand : \E v \in SampleVersions :
             /\ AnswersWith(bash_env[k], v)
             /\ bash_path = CandidateOrder[k]
             /\ bash_version = v.text

----------------------------------------------------------------------------
(* Properties of the version gate *)

\* C7: a version line "version <major>.<minor>[.<patch>]" passes the gate
\* exactly when major > 4, or major = 4 and minor >= 3, for every major and
\* minor; the patch is ignored: "4.2.46" fails, "5.1.8" and "4.10" pass.
C7_GateIsVersionOrder ==
    /\ \A major \in 0..MaxMajor, minor \in 0..MaxMinor, tail \in GateTails :
          version_line = GateLine(major, minor, tail) =>
              /\ gate_pc # "nomatch"
              /\ gate_pc = "compared" =>
                    (gate_ok <=> (major > 4 \/ (major = 4 /\ minor >= 3)))
    /\ (gate_pc = "compared"
        /\ version_line = <<"GNU bash, ", "version ", "4", ".", "2", ".", "4", "6">>)
          => ~gate_ok
    /\ (gate_pc = "compared"
        /\ version_line = <<"GNU bash, ", "version ", "5", ".", "1", ".", "8", "(1)-release">>)
          => gate_ok
    /\ (gate_pc = "compared"
        /\ version_line = <<"GNU bash, ", "version ", "4", ".", "1", "0">>)
          => gate_ok

\* "4.10" has passed the gate
C7_Witness ==
    /\ gate_pc = "compared"
    /\ version_line = <<"GNU bash, ", "version ", "4", ".", "1", "0">>
    /\ gate_ok

----------------------------------------------------------------------------
(* Properties of the embedding-function factory *)

ValidNames == {"stella", "modernbert", "bge-large"}

Contains(message, token) == \E k \in 1..Len(message) : message[k] = token

LoadsOf(k) == { j \in 1..Len(loads) : loads[j].call = k }

\* C4: a call with a name outside {"stella", "modernbert", "bge-large"} raises
\* a ValueError whose message has the name given and the three valid names, and
\* no model is constructed or loaded by that call.
C4_UnknownNameRaises ==
    \A k \in 1..Len(results) :
        calls[k] \notin ValidNames =>
            /\ results[k].kind = "raised"
            /\ results[k].error.type = "ValueError"
            /\ Contains(results[k].error.message, calls[k])
            /\ \A name \in ValidNames : Contains(results[k].error.message, name)
            /\ LoadsOf(k) = {}

\* "gpt-bogus" was refused after a model had been loaded for "stella"
C4_Witness ==
    /\ Len(results) = 2
    /\ calls = <<"stella", "gpt-bogus">>
    /\ results[1].kind = "returned"
    /\ results[2].error.type = "ValueError"
    /\ Len(loads) = 1

ExpectedClass(name) ==
    CASE name = "stella" -> "StellaEmbeddingFunction"
      [] name = "modernbert" -> "ModernBERTEmbeddingFunction"
      [] name = "bge-large" -> "BGEEmbeddingFunction"

ExpectedLoad(name) ==
    CASE name = "stella" ->
             [hub |-> "dunzhang/stella_en_400M_v5", trust_remote_code |-> TRUE]
      [] name = "modernbert" ->
             [hub |-> "answerdotai/ModernBERT-large", trust_remote_code |-> TRUE]
      [] name = "bge-large" ->
             [hub |-> "BAAI/bge-large-en-v1.5", trust_remote_code |-> FALSE]

\* C5: every call with a known name loads exactly one model, the one mapped to
\* the name (hub identifier and trust flag), and when the load succeeds returns
\* a new object of the mapped wrapper: the loads are as many as the calls with
\* a known name, and no object is returned twice.
C5_FreshInstancePerCall ==
    /\ Len(loads) = Cardinality({k \in 1..Len(calls) : calls[k] \in ValidNames})
    /\ \A k \in 1..Len(results) :
          calls[k] \in ValidNames =>
              /\ Cardinality(LoadsOf(k)) = 1
              /\ \A j \in LoadsOf(k) :
                    /\ loads[j].args = ExpectedLoad(calls[k])
                    /\ loads[j].outcome = "ok" =>
                          /\ results[k].kind = "returned"
                          /\ results[k].object.class = ExpectedClass(calls[k])
                          /\ results[k].object.model = "loaded"
    /\ \A j, k \in 1..Len(results) :
          (j # k /\ results[j].kind = "returned" /\ results[k].kind = "returned")
              => results[j].object.id # results[k].object.id

\* two calls with "stella" returned two objects
C5_Witness ==
    /\ Len(results) >= 2
    /\ calls[1] = "stella" /\ calls[2] = "stella"
    /\ results[1].kind = "returned" /\ results[2].kind = "returned"
    /\ results[1].object.id # results[2].object.id
    /\ Len(loads) = 2

\* C6: when the load of a known model fails, the caller gets the loader's error
\* as it was raised, and no object; every call ends with an object whose model
\* is loaded or with an error.
C6_LoadErrorPropagates ==
    \A k \in 1..Len(results) :
        /\ results[k].kind \in {"returned", "raised"}
        /\ results[k].kind = "returned" =>
              /\ results[k].object.model = "loaded"
              /\ results[k].error.type = "none"
        /\ results[k].kind = "raised" => results[k].object.class = "none"
        /\ \A j \in LoadsOf(k) :
              loads[j].outcome # "ok" =>
                  /\ results[k].kind = "raised"
                  /\ results[k].error =
                         [type |-> loads[j].outcome,
                          message |-> <<"raised by SentenceTransformer">>]

\* a call with "bge-large" ended with the loader's OSError
C6_Witness ==
    /\ Len(results) >= 1
    /\ calls[1] = "bge-large"
    /\ results[1].kind = "raised"
    /\ results[1].error.type = "OSError"

====
